---- MODULE Spec2Model ----
(***************************************************************************)
(* Model of HVPSTestWindow (src/src/gui/hvps_test_window.py): the window   *)
(* that steps an operator through the occupied channels of an HVPS, arms   *)
(* test points, captures readback/measurement pairs and quiesces the       *)
(* device on Next, Back and close.                                         *)
(*                                                                         *)
(* Python lists are functions on 0..n-1, so that ordinals and indices are  *)
(* the source's; a negative index is resolved as Python resolves it.       *)
(* Every handler is an operator from the program state (a record) to the   *)
(* program state; an action runs the handler wired to the operator's       *)
(* event.  The trace of a handler is the sequence of device calls, signal  *)
(* emissions and raised exceptions of its run.                             *)
(***************************************************************************)
EXTENDS Integers, Sequences, FiniteSets, TLC

VARIABLES
    occupied_channels,    \* self.occupied_channels
    test_stages,          \* self.test_stages: the create_*_gui methods, by name
    current_stage_index,  \* self.current_stage_index
    back_button_pressed,  \* self.back_button_pressed
    channel,              \* self.channel ("" while the attribute does not exist)
    readbacks,            \* self.readbacks
    measurements,         \* self.measurements
    gui,                  \* the widgets the window shows: "none", a create_*_gui, "blank"
    line_edits,           \* self.line_edits: enabled flag of each QLineEdit
    hv_buttons,           \* self.hv_buttons: enabled flag of each QPushButton
    current_buttons,      \* self.current_buttons: enabled flag of each QPushButton
    back_btn,             \* self.back_btn: enabled flag
    focus,                \* the widget that holds input focus
    window,               \* "open" or "closed"
    hvps,                 \* the device behind self.hvps
    handler,              \* the handler that ran last
    event,                \* the operator event that started it
    trace,                \* what that run did, in order
    aborted,              \* whether that run ended in an exception
    signals,              \* the signals emitted so far, in order
    report,               \* the payloads of test_complete
    captured,             \* history: the slots a capture handler has written
    failures              \* history: how many device calls have failed

vars == << occupied_channels, test_stages, current_stage_index, back_button_pressed,
           channel, readbacks, measurements, gui, line_edits, hv_buttons,
           current_buttons, back_btn, focus, window, hvps, handler, event, trace,
           aborted, signals, report, captured, failures >>

(***************************************************************************)
(* Bounds of the model.                                                    *)
(***************************************************************************)
\* How many distinct result slots may be captured in one session.
MaxCaptures == 1

\* How many device calls may fail in one session.
MaxFailures == 1

\* How many distinct result slots may be captured in a session of the solenoid
\* alone: every point of the channel.
MaxCapturesAlone == 3

(***************************************************************************)
(* Python lists.                                                           *)
(***************************************************************************)
PyLen(l) == Cardinality(DOMAIN l)

PyList(seq) == [i \in 0..(Len(seq) - 1) |-> seq[i + 1]]

PyAppend(l, x) == [i \in 0..PyLen(l) |-> IF i < PyLen(l) THEN l[i] ELSE x]

PyIn(x, l) == \E i \in DOMAIN l : l[i] = x

PyRepeat(x, n) == [i \in 0..(n - 1) |-> x]

\* l[i] is defined for -len <= i < len; anything else raises IndexError.
PyIndexOk(l, i) == (0 - PyLen(l)) <= i /\ i < PyLen(l)

PyItem(l, i) == IF i < 0 THEN l[PyLen(l) + i] ELSE l[i]

(***************************************************************************)
(* The data of __init__.                                                   *)
(***************************************************************************)
Channels == {"BM", "EX", "L1", "L2", "L3", "L4", "SL"}

HVChannels == {"BM", "EX", "L1", "L2", "L3", "L4"}

test_voltages == PyList(<<"100", "500", "1000">>)

test_currents == PyList(<<"0.3", "1.2", "2.5">>)

NotInstalled == "N/I"

InitialReadbacks ==
    [c \in Channels |-> IF c = "SL" THEN PyRepeat(NotInstalled, 3)
                                     ELSE PyRepeat(NotInstalled, 6)]

InitialMeasurements ==
    [c \in Channels |-> IF c = "SL" THEN PyRepeat(NotInstalled, 3)
                                     ELSE PyRepeat(NotInstalled, 6)]

(***************************************************************************)
(* The device collaborator HVPSv3, from the command/query contract of the  *)
(* specification: targets per channel, one solenoid target, two outputs,   *)
(* and whether a status bit beyond the two documented ones is set.         *)
(***************************************************************************)
StateToken(hv, sol) ==
    IF hv THEN (IF sol THEN "STATE0011" ELSE "STATE0001")
          ELSE (IF sol THEN "STATE0010" ELSE "STATE0000")

\* The token of a device that has a further status bit set: none of the four
\* documented ones.
OtherToken(hv, sol) ==
    IF hv THEN (IF sol THEN "STATE0111" ELSE "STATE0101")
          ELSE (IF sol THEN "STATE0110" ELSE "STATE0100")

Queries == {"get_state", "get_voltage", "get_current"}

\* The device after command cmd (a tuple: the call's name, then its arguments).
DevEffect(d, cmd) ==
    CASE cmd[1] = "set_voltage" ->
             [d EXCEPT !.voltage[cmd[2]] = cmd[3]]
      [] cmd[1] = "set_solenoid_current" -> [d EXCEPT !.current = cmd[2]]
      [] cmd[1] = "enable_high_voltage" -> [d EXCEPT !.hv = TRUE]
      [] cmd[1] = "disable_high_voltage" -> [d EXCEPT !.hv = FALSE]
      [] cmd[1] = "enable_solenoid_current" -> [d EXCEPT !.sol = TRUE]
      [] cmd[1] = "disable_solenoid_current" -> [d EXCEPT !.sol = FALSE]
      [] OTHER -> d

\* What the device answers to query cmd; rb is the readback it reports.
DevReply(d, cmd, rb) ==
    CASE cmd[1] = "get_state" ->
             IF d.other THEN OtherToken(d.hv, d.sol) ELSE StateToken(d.hv, d.sol)
      [] cmd[1] = "get_voltage" -> rb
      [] cmd[1] = "get_current" -> rb
      [] OTHER -> ""

DeviceCalls == {"get_state", "set_voltage", "get_voltage", "set_solenoid_current",
                "get_current", "enable_high_voltage", "disable_high_voltage",
                "enable_solenoid_current", "disable_solenoid_current"}

RECURSIVE NumCalls(_)
NumCalls(t) ==
    IF t = <<>> THEN 0
    ELSE (IF t[1][1] \in DeviceCalls THEN 1 ELSE 0) + NumCalls(Tail(t))

(***************************************************************************)
(* Steps of a handler.  A step of a run that has raised does nothing.      *)
(***************************************************************************)
Raise(s, what) ==
    IF s.aborted THEN s
    ELSE [s EXCEPT !.aborted = TRUE, !.trace = Append(@, <<"raise", what>>)]

\* self.hvps.<cmd>(...): the call fails when it is the failAt-th of the run.
Call(s, cmd) ==
    IF s.aborted THEN s
    ELSE IF s.failAt = NumCalls(s.trace) + 1 THEN Raise(s, cmd[1])
    ELSE IF cmd[1] \in Queries
         THEN LET reply == DevReply(s.hvps, cmd, s.rb)
              IN  [s EXCEPT !.ret = reply, !.trace = Append(@, Append(cmd, reply))]
         ELSE [s EXCEPT !.hvps = DevEffect(@, cmd), !.trace = Append(@, cmd)]

Emit(s, signal) ==
    IF s.aborted THEN s
    ELSE [s EXCEPT !.signals = Append(@, signal),
                   !.trace = Append(@, <<"emit", signal>>)]

\* t, unless the run has raised.
Then(s, t) == IF s.aborted THEN s ELSE t

(***************************************************************************)
(* get_hv_enable_state, get_sol_enable_state: one get_state query each,    *)
(* decoded by comparing the token; the answer is left in ret.              *)
(***************************************************************************)
\* Mutant of hv_token_enabled: any token but 'STATE0000' counts as HV enabled.
hv_token_enabled_AnyBit(state) ==
    IF state = "STATE0000" THEN FALSE ELSE TRUE

hv_token_enabled(state) ==
    IF state = "STATE0000" \/ state = "STATE0010" THEN FALSE ELSE TRUE

\* Mutant of sol_token_enabled: the token is decoded by its solenoid bit.
sol_token_enabled_BitTest(state) ==
    IF state = "STATE0010" \/ state = "STATE0011" THEN TRUE ELSE FALSE

sol_token_enabled(state) ==
    IF state = "STATE0000" \/ state = "STATE0001" THEN FALSE ELSE TRUE

get_hv_enable_state(s) ==
    LET s1 == Call(s, <<"get_state">>)
    IN  Then(s1, [s1 EXCEPT !.ret = hv_token_enabled(s1.ret)])

get_sol_enable_state(s) ==
    LET s1 == Call(s, <<"get_state">>)
    IN  Then(s1, [s1 EXCEPT !.ret = sol_token_enabled(s1.ret)])

(***************************************************************************)
(* The create_*_gui methods.  Each sets self.channel, builds enabled test  *)
(* buttons and disabled line edits, a Back and a Next button, and focuses  *)
(* the first test button.  The six HV builders clear back_button_pressed;  *)
(* only the beam builder disables Back.                                    *)
(***************************************************************************)
create_beam_test_gui(s) ==
    Then(s, [s EXCEPT !.gui = "create_beam_test_gui",
                      !.channel = "BM",
                      !.hv_buttons = PyRepeat(TRUE, 6),
                      !.line_edits = PyRepeat(FALSE, 6),
                      !.back_button_pressed = FALSE,
                      !.back_btn = FALSE,
                      !.focus = <<"button", 0>>])

create_ext_test_gui(s) ==
    Then(s, [s EXCEPT !.gui = "create_ext_test_gui",
                      !.channel = "EX",
                      !.hv_buttons = PyRepeat(TRUE, 6),
                      !.line_edits = PyRepeat(FALSE, 6),
                      !.back_button_pressed = FALSE,
                      !.back_btn = TRUE,
                      !.focus = <<"button", 0>>])

create_L1_test_gui(s) ==
    Then(s, [s EXCEPT !.gui = "create_L1_test_gui",
                      !.channel = "L1",
                      !.hv_buttons = PyRepeat(TRUE, 6),
                      !.line_edits = PyRepeat(FALSE, 6),
                      !.back_button_pressed = FALSE,
                      !.back_btn = TRUE,
                      !.focus = <<"button", 0>>])

create_L2_test_gui(s) ==
    Then(s, [s EXCEPT !.gui = "create_L2_test_gui",
                      !.channel = "L2",
                      !.hv_buttons = PyRepeat(TRUE, 6),
                      !.line_edits = PyRepeat(FALSE, 6),
                      !.back_button_pressed = FALSE,
                      !.back_btn = TRUE,
                      !.focus = <<"button", 0>>])

create_L3_test_gui(s) ==
    Then(s, [s EXCEPT !.gui = "create_L3_test_gui",
                      !.channel = "L3",
                      !.hv_buttons = PyRepeat(TRUE, 6),
                      !.line_edits = PyRepeat(FALSE, 6),
                      !.back_button_pressed = FALSE,
                      !.back_btn = TRUE,
                      !.focus = <<"button", 0>>])

create_L4_test_gui(s) ==
    Then(s, [s EXCEPT !.gui = "create_L4_test_gui",
                      !.channel = "L4",
                      !.hv_buttons = PyRepeat(TRUE, 6),
                      !.line_edits = PyRepeat(FALSE, 6),
                      !.back_button_pressed = FALSE,
                      !.back_btn = TRUE,
                      !.focus = <<"button", 0>>])

\* The solenoid builder leaves back_button_pressed as it is.
create_sol_test_gui(s) ==
    Then(s, [s EXCEPT !.gui = "create_sol_test_gui",
                      !.channel = "SL",
                      !.current_buttons = PyRepeat(TRUE, 3),
                      !.line_edits = PyRepeat(FALSE, 3),
                      !.back_btn = TRUE,
                      !.focus = <<"button", 0>>])

\* Calling the bound method stored in self.test_stages.
CallStage(s, method) ==
    CASE method = "create_beam_test_gui" -> create_beam_test_gui(s)
      [] method = "create_ext_test_gui" -> create_ext_test_gui(s)
      [] method = "create_L1_test_gui" -> create_L1_test_gui(s)
      [] method = "create_L2_test_gui" -> create_L2_test_gui(s)
      [] method = "create_L3_test_gui" -> create_L3_test_gui(s)
      [] method = "create_L4_test_gui" -> create_L4_test_gui(s)
      [] method = "create_sol_test_gui" -> create_sol_test_gui(s)

\* Every widget of the layouts is removed from the window and deleted.
clear_layout(s) == Then(s, [s EXCEPT !.gui = "blank", !.focus = <<"none">>])

(***************************************************************************)
(* closeEvent: the safety contract, then window_closed.  An exception in   *)
(* the override does not un-accept the QCloseEvent: the window closes.     *)
(***************************************************************************)

\* Mutant of closeEvent: the HV target is not zeroed.
closeEvent_NoZero(s) ==
    LET s1 == get_hv_enable_state(s)
        s2 == IF s1.aborted \/ s1.ret # TRUE THEN s1
              ELSE Call(s1, <<"disable_high_voltage">>)
        s3 == get_sol_enable_state(s2)
        s4 == IF s3.aborted \/ s3.ret # TRUE THEN s3
              ELSE Call(Call(s3, <<"disable_solenoid_current">>),
                        <<"set_solenoid_current", "0">>)
        s5 == Emit(s4, "window_closed")
    IN  [s5 EXCEPT !.window = "closed", !.focus = <<"none">>]

closeEvent(s) ==
    LET s1 == get_hv_enable_state(s)
        s2 == IF s1.aborted \/ s1.ret # TRUE THEN s1
              ELSE LET a == Call(s1, <<"disable_high_voltage">>)
                   IN  IF a.channel = "" THEN Raise(a, "AttributeError")
                       ELSE Call(a, <<"set_voltage", a.channel, "0">>)
        s3 == get_sol_enable_state(s2)
        s4 == IF s3.aborted \/ s3.ret # TRUE THEN s3
              ELSE Call(Call(s3, <<"disable_solenoid_current">>),
                        <<"set_solenoid_current", "0">>)
        s5 == Emit(s4, "window_closed")
    IN  [s5 EXCEPT !.window = "closed", !.focus = <<"none">>]

(***************************************************************************)
(* load_current_stage                                                      *)
(***************************************************************************)

\* Mutant of load_current_stage: the bound of the index is off by one.
load_current_stage_OffByOne(s) ==
    IF s.aborted THEN s
    ELSE IF s.current_stage_index <= PyLen(s.test_stages)
    THEN LET s1 == IF s.back_button_pressed THEN clear_layout(s) ELSE s
             s2 == IF s1.current_stage_index > 0 /\ ~s1.back_button_pressed
                    THEN clear_layout(s1) ELSE s1
         IN  IF PyIndexOk(s2.test_stages, s2.current_stage_index)
             THEN CallStage(s2, PyItem(s2.test_stages, s2.current_stage_index))
             ELSE Raise(s2, "IndexError")
    ELSE LET s1 == [Emit(s, "test_complete") EXCEPT
                       !.report = Append(@, [readbacks |-> s.readbacks,
                                             measurements |-> s.measurements])]
         IN  closeEvent(s1)

\* Mutant of load_current_stage: the mappings are emitted, the window stays open.
load_current_stage_EmitNoClose(s) ==
    IF s.aborted THEN s
    ELSE IF s.current_stage_index < PyLen(s.test_stages)
    THEN LET s1 == IF s.back_button_pressed THEN clear_layout(s) ELSE s
             s2 == IF s1.current_stage_index > 0 /\ ~s1.back_button_pressed
                    THEN clear_layout(s1) ELSE s1
         IN  IF PyIndexOk(s2.test_stages, s2.current_stage_index)
             THEN CallStage(s2, PyItem(s2.test_stages, s2.current_stage_index))
             ELSE Raise(s2, "IndexError")
    ELSE [Emit(s, "test_complete") EXCEPT
             !.report = Append(@, [readbacks |-> s.readbacks,
                                   measurements |-> s.measurements])]

\* Mutant of load_current_stage: the window is closed before the emission.
load_current_stage_CloseFirst(s) ==
    IF s.aborted THEN s
    ELSE IF s.current_stage_index < PyLen(s.test_stages)
    THEN LET s1 == IF s.back_button_pressed THEN clear_layout(s) ELSE s
             s2 == IF s1.current_stage_index > 0 /\ ~s1.back_button_pressed
                    THEN clear_layout(s1) ELSE s1
         IN  IF PyIndexOk(s2.test_stages, s2.current_stage_index)
             THEN CallStage(s2, PyItem(s2.test_stages, s2.current_stage_index))
             ELSE Raise(s2, "IndexError")
    ELSE LET s1 == closeEvent(s)
         IN  [Emit(s1, "test_complete") EXCEPT
                 !.report = Append(@, [readbacks |-> s.readbacks,
                                       measurements |-> s.measurements])]

load_current_stage(s) ==
    IF s.aborted THEN s
    ELSE IF s.current_stage_index < PyLen(s.test_stages)
    THEN LET s1 == IF s.back_button_pressed THEN clear_layout(s) ELSE s
             s2 == IF s1.current_stage_index > 0 /\ ~s1.back_button_pressed
                    THEN clear_layout(s1) ELSE s1
         IN  IF PyIndexOk(s2.test_stages, s2.current_stage_index)
             THEN CallStage(s2, PyItem(s2.test_stages, s2.current_stage_index))
             ELSE Raise(s2, "IndexError")
    ELSE LET s1 == [Emit(s, "test_complete") EXCEPT
                       !.report = Append(@, [readbacks |-> s.readbacks,
                                             measurements |-> s.measurements])]
         IN  closeEvent(s1)

(***************************************************************************)
(* test_plan                                                               *)
(***************************************************************************)
StageIf(s, c, method) ==
    IF PyIn(c, s.occupied_channels)
    THEN [s EXCEPT !.test_stages = PyAppend(@, method)] ELSE s


\* Mutant of test_plan: one stage per element of occupied_channels, in its order.
test_plan_ListOrder(s) ==
    LET method(c) ==
            CASE c = "BM" -> "create_beam_test_gui"
              [] c = "EX" -> "create_ext_test_gui"
              [] c = "L1" -> "create_L1_test_gui"
              [] c = "L2" -> "create_L2_test_gui"
              [] c = "L3" -> "create_L3_test_gui"
              [] c = "L4" -> "create_L4_test_gui"
              [] c = "SL" -> "create_sol_test_gui"
        stages == [i \in DOMAIN s.occupied_channels |-> method(s.occupied_channels[i])]
    IN  load_current_stage([s EXCEPT !.test_stages = stages,
                                     !.current_stage_index = 0])

test_plan(s) ==
    LET s1 == StageIf(s, "BM", "create_beam_test_gui")
        s2 == StageIf(s1, "EX", "create_ext_test_gui")
        s3 == StageIf(s2, "L1", "create_L1_test_gui")
        s4 == StageIf(s3, "L2", "create_L2_test_gui")
        s5 == StageIf(s4, "L3", "create_L3_test_gui")
        s6 == StageIf(s5, "L4", "create_L4_test_gui")
        s7 == StageIf(s6, "SL", "create_sol_test_gui")
    IN  load_current_stage([s7 EXCEPT !.current_stage_index = 0])

(***************************************************************************)
(* The handlers of the disable, back and next buttons.                     *)
(***************************************************************************)
handle_disable_hv_btn(s) ==
    LET s1 == get_hv_enable_state(s)
        s2 == IF s1.aborted \/ s1.ret # TRUE THEN s1
              ELSE Call(s1, <<"disable_high_voltage">>)
    IN  Call(s2, <<"set_voltage", s2.channel, "0">>)

handle_disable_sol_btn(s) ==
    LET s1 == get_sol_enable_state(s)
    IN  IF s1.aborted \/ s1.ret # TRUE THEN s1
        ELSE Call(s1, <<"disable_solenoid_current">>)

\* The safety contract both handlers and closeEvent open with.

\* Mutant of QuiesceDevice: the HV target is zeroed before the HV is disabled.
QuiesceDevice_ZeroFirst(s) ==
    LET s1 == get_hv_enable_state(s)
        s2 == IF s1.aborted \/ s1.ret # TRUE THEN s1
              ELSE Call(Call(s1, <<"set_voltage", s1.channel, "0">>),
                        <<"disable_high_voltage">>)
        s3 == get_sol_enable_state(s2)
    IN  IF s3.aborted \/ s3.ret # TRUE THEN s3
        ELSE Call(Call(s3, <<"disable_solenoid_current">>),
                  <<"set_solenoid_current", "0">>)

\* Mutant of QuiesceDevice: the solenoid is checked first, the HV after it.
QuiesceDevice_SolFirst(s) ==
    LET s1 == get_sol_enable_state(s)
        s2 == IF s1.aborted \/ s1.ret # TRUE THEN s1
              ELSE Call(Call(s1, <<"disable_solenoid_current">>),
                        <<"set_solenoid_current", "0">>)
        s3 == get_hv_enable_state(s2)
    IN  IF s3.aborted \/ s3.ret # TRUE THEN s3
        ELSE Call(Call(s3, <<"disable_high_voltage">>),
                  <<"set_voltage", s3.channel, "0">>)

\* Mutant of QuiesceDevice: the solenoid check is forgotten.
QuiesceDevice_HVOnly(s) ==
    LET s1 == get_hv_enable_state(s)
    IN  IF s1.aborted \/ s1.ret # TRUE THEN s1
        ELSE Call(Call(s1, <<"disable_high_voltage">>),
                  <<"set_voltage", s1.channel, "0">>)

QuiesceDevice(s) ==
    LET s1 == get_hv_enable_state(s)
        s2 == IF s1.aborted \/ s1.ret # TRUE THEN s1
              ELSE Call(Call(s1, <<"disable_high_voltage">>),
                        <<"set_voltage", s1.channel, "0">>)
        s3 == get_sol_enable_state(s2)
    IN  IF s3.aborted \/ s3.ret # TRUE THEN s3
        ELSE Call(Call(s3, <<"disable_solenoid_current">>),
                  <<"set_solenoid_current", "0">>)

\* Mutant of handle_back_btn: the measurements of the channel it leaves are reset.
handle_back_btn_ForgetsChannel(s) ==
    LET s1 == QuiesceDevice([s EXCEPT !.back_button_pressed = TRUE])
        s2 == Then(s1, [s1 EXCEPT !.current_stage_index = @ - 1,
                                  !.measurements[s1.channel] =
                                      InitialMeasurements[s1.channel],
                                  !.trace = Append(@, <<"current_stage_index", "-= 1">>)])
    IN  load_current_stage(s2)

handle_back_btn(s) ==
    LET s1 == QuiesceDevice([s EXCEPT !.back_button_pressed = TRUE])
        s2 == Then(s1, [s1 EXCEPT !.current_stage_index = @ - 1,
                                  !.trace = Append(@, <<"current_stage_index", "-= 1">>)])
    IN  load_current_stage(s2)

\* Mutant of handle_next_btn: the stage is left without quiescing the device.
handle_next_btn_NoQuiesce(s) ==
    LET s2 == Then(s, [s EXCEPT !.current_stage_index = @ + 1,
                                !.trace = Append(@, <<"current_stage_index", "+= 1">>)])
    IN  load_current_stage(s2)

handle_next_btn(s) ==
    LET s1 == QuiesceDevice(s)
        s2 == Then(s1, [s1 EXCEPT !.current_stage_index = @ + 1,
                                  !.trace = Append(@, <<"current_stage_index", "+= 1">>)])
    IN  load_current_stage(s2)

(***************************************************************************)
(* The handlers of the voltage test buttons: enable the line edit of the   *)
(* displayed channel, disable the other test buttons, set the target,      *)
(* enable the high voltage unless get_state reports it enabled.            *)
(***************************************************************************)

\* Mutant of TestVoltage: the high voltage is enabled without asking the device.
TestVoltage_AlwaysEnable(s, ordinal, voltage) ==
    LET s1 == IF s.channel \in HVChannels
              THEN [s EXCEPT !.line_edits[ordinal] = TRUE,
                             !.focus = <<"line_edit", ordinal>>]
              ELSE s
        s2 == [s1 EXCEPT !.hv_buttons =
                  [j \in DOMAIN @ |-> IF j = ordinal THEN @[j] ELSE FALSE]]
        s3 == Call(s2, <<"set_voltage", s2.channel, voltage>>)
        s4 == get_hv_enable_state(s3)
    IN  Call(s4, <<"enable_high_voltage">>)

\* Mutant of TestVoltage: arming marks the slot as awaiting its measurement.
TestVoltage_MarksSlot(s, ordinal, voltage) ==
    LET s1 == IF s.channel \in HVChannels
              THEN [s EXCEPT !.line_edits[ordinal] = TRUE,
                             !.measurements[s.channel][ordinal] = "unmeasured",
                             !.focus = <<"line_edit", ordinal>>]
              ELSE s
        s2 == [s1 EXCEPT !.hv_buttons =
                  [j \in DOMAIN @ |-> IF j = ordinal THEN @[j] ELSE FALSE]]
        s3 == Call(s2, <<"set_voltage", s2.channel, voltage>>)
        s4 == get_hv_enable_state(s3)
    IN  IF s4.aborted \/ s4.ret # FALSE THEN s4
        ELSE Call(s4, <<"enable_high_voltage">>)

TestVoltage(s, ordinal, voltage) ==
    LET s1 == IF s.channel \in HVChannels
              THEN [s EXCEPT !.line_edits[ordinal] = TRUE,
                             !.focus = <<"line_edit", ordinal>>]
              ELSE s
        s2 == [s1 EXCEPT !.hv_buttons =
                  [j \in DOMAIN @ |-> IF j = ordinal THEN @[j] ELSE FALSE]]
        s3 == Call(s2, <<"set_voltage", s2.channel, voltage>>)
        s4 == get_hv_enable_state(s3)
    IN  IF s4.aborted \/ s4.ret # FALSE THEN s4
        ELSE Call(s4, <<"enable_high_voltage">>)

handle_test_pos_100V_btn(s) == TestVoltage(s, 0, test_voltages[0])

handle_test_pos_500V_btn(s) == TestVoltage(s, 1, test_voltages[1])

handle_test_pos_1kV_btn(s) == TestVoltage(s, 2, test_voltages[2])

\* Mutant of handle_test_neg_100V_btn: the sign is forgotten.
handle_test_neg_100V_btn_Positive(s) == TestVoltage(s, 3, test_voltages[0])

handle_test_neg_100V_btn(s) == TestVoltage(s, 3, "-" \o test_voltages[0])

handle_test_neg_500V_btn(s) == TestVoltage(s, 4, "-" \o test_voltages[1])

handle_test_neg_1kV_btn(s) == TestVoltage(s, 5, "-" \o test_voltages[2])

(***************************************************************************)
(* The handlers of the current test buttons: enable the line edit, set the *)
(* target, enable the solenoid current unless get_state reports it         *)
(* enabled.  No button is disabled.                                        *)
(***************************************************************************)
TestCurrent(s, ordinal, current) ==
    LET s1 == [s EXCEPT !.line_edits[ordinal] = TRUE,
                        !.focus = <<"line_edit", ordinal>>]
        s2 == Call(s1, <<"set_solenoid_current", current>>)
        s3 == get_sol_enable_state(s2)
    IN  IF s3.aborted \/ s3.ret # FALSE THEN s3
        ELSE Call(s3, <<"enable_solenoid_current">>)

handle_test_sol_current1_btn(s) == TestCurrent(s, 0, test_currents[0])

handle_test_sol_current2_btn(s) == TestCurrent(s, 1, test_currents[1])

handle_test_sol_current3_btn(s) == TestCurrent(s, 2, test_currents[2])

(***************************************************************************)
(* The returnPressed handlers of the voltage line edits.  le is the line   *)
(* edit the connection passes; slot is the index the handler writes; next  *)
(* is the widget that gets the focus.                                      *)
(***************************************************************************)

\* Mutant of VoltageEntered: the target is left where the test point set it.
VoltageEntered_NoZero(s, le, slot, next) ==
    LET s1 == Call(s, <<"get_voltage", s.channel>>)
        s2 == Then(s1, [s1 EXCEPT !.readbacks[s1.channel][slot] = s1.ret,
                                  !.measurements[s1.channel][slot] = s1.text,
                                  !.line_edits[le] = FALSE,
                                  !.focus = <<"none">>])
        s3 == Call(s2, <<"disable_high_voltage">>)
    IN  Then(s3, [s3 EXCEPT !.hv_buttons = [j \in DOMAIN @ |-> TRUE],
                            !.focus = next])

\* Mutant of VoltageEntered: the test buttons are not enabled again.
VoltageEntered_NoReenable(s, le, slot, next) ==
    LET s1 == Call(s, <<"get_voltage", s.channel>>)
        s2 == Then(s1, [s1 EXCEPT !.readbacks[s1.channel][slot] = s1.ret,
                                  !.measurements[s1.channel][slot] = s1.text,
                                  !.line_edits[le] = FALSE,
                                  !.focus = <<"none">>])
        s3 == Call(s2, <<"set_voltage", s2.channel, "0">>)
        s4 == Call(s3, <<"disable_high_voltage">>)
    IN  Then(s4, [s4 EXCEPT !.focus = next])

\* Mutant of VoltageEntered: the typed text is stored before the device is asked.
VoltageEntered_MeasurementFirst(s, le, slot, next) ==
    LET s0 == [s EXCEPT !.measurements[s.channel][slot] = s.text]
        s1 == Call(s0, <<"get_voltage", s0.channel>>)
        s2 == Then(s1, [s1 EXCEPT !.readbacks[s1.channel][slot] = s1.ret,
                                  !.line_edits[le] = FALSE,
                                  !.focus = <<"none">>])
        s3 == Call(s2, <<"set_voltage", s2.channel, "0">>)
        s4 == Call(s3, <<"disable_high_voltage">>)
    IN  Then(s4, [s4 EXCEPT !.hv_buttons = [j \in DOMAIN @ |-> TRUE],
                            !.focus = next])

VoltageEntered(s, le, slot, next) ==
    LET s1 == Call(s, <<"get_voltage", s.channel>>)
        s2 == Then(s1, [s1 EXCEPT !.readbacks[s1.channel][slot] = s1.ret,
                                  !.measurements[s1.channel][slot] = s1.text,
                                  !.line_edits[le] = FALSE,
                                  !.focus = <<"none">>])
        s3 == Call(s2, <<"set_voltage", s2.channel, "0">>)
        s4 == Call(s3, <<"disable_high_voltage">>)
    IN  Then(s4, [s4 EXCEPT !.hv_buttons = [j \in DOMAIN @ |-> TRUE],
                            !.focus = next])

handle_pos_100V_entered(s, le) == VoltageEntered(s, le, 0, <<"button", 1>>)

handle_pos_500V_entered(s, le) == VoltageEntered(s, le, 1, <<"button", 2>>)

handle_pos_1kV_entered(s, le) == VoltageEntered(s, le, 2, <<"button", 3>>)

\* Mutant of handle_neg_100V_entered: the slot of the -500 V point is written.
handle_neg_100V_entered_WrongSlot(s, le) == VoltageEntered(s, le, 4, <<"button", 4>>)

handle_neg_100V_entered(s, le) == VoltageEntered(s, le, 3, <<"button", 4>>)

handle_neg_500V_entered(s, le) == VoltageEntered(s, le, 4, <<"button", 5>>)

\* Mutant of handle_neg_1kV_entered: the last point completes the channel.
handle_neg_1kV_entered_AutoNext(s, le) ==
    handle_next_btn(VoltageEntered(s, le, 5, <<"next_btn">>))

handle_neg_1kV_entered(s, le) == VoltageEntered(s, le, 5, <<"next_btn">>)

(***************************************************************************)
(* The returnPressed handlers of the current line edits.                   *)
(***************************************************************************)
\* Mutant of CurrentEntered: the values are appended to the lists.
CurrentEntered_Appends(s, slot, next) ==
    LET s1 == Call(s, <<"get_current", s.channel>>)
        s2 == Then(s1, [s1 EXCEPT !.readbacks[s1.channel] = PyAppend(@, s1.ret),
                                  !.measurements[s1.channel] = PyAppend(@, s1.text),
                                  !.line_edits[slot] = FALSE,
                                  !.focus = <<"none">>])
        s3 == Call(s2, <<"set_solenoid_current", "0">>)
        s4 == Call(s3, <<"disable_solenoid_current">>)
    IN  Then(s4, [s4 EXCEPT !.current_buttons = [j \in DOMAIN @ |-> TRUE],
                            !.focus = next])

\* Mutant of CurrentEntered: the solenoid current is left enabled.
CurrentEntered_LeavesCurrentOn(s, slot, next) ==
    LET s1 == Call(s, <<"get_current", s.channel>>)
        s2 == Then(s1, [s1 EXCEPT !.readbacks[s1.channel][slot] = s1.ret,
                                  !.measurements[s1.channel][slot] = s1.text,
                                  !.line_edits[slot] = FALSE,
                                  !.focus = <<"none">>])
        s3 == Call(s2, <<"set_solenoid_current", "0">>)
    IN  Then(s3, [s3 EXCEPT !.current_buttons = [j \in DOMAIN @ |-> TRUE],
                            !.focus = next])

CurrentEntered(s, slot, next) ==
    LET s1 == Call(s, <<"get_current", s.channel>>)
        s2 == Then(s1, [s1 EXCEPT !.readbacks[s1.channel][slot] = s1.ret,
                                  !.measurements[s1.channel][slot] = s1.text,
                                  !.line_edits[slot] = FALSE,
                                  !.focus = <<"none">>])
        s3 == Call(s2, <<"set_solenoid_current", "0">>)
        s4 == Call(s3, <<"disable_solenoid_current">>)
    IN  Then(s4, [s4 EXCEPT !.current_buttons = [j \in DOMAIN @ |-> TRUE],
                            !.focus = next])

handle_current1_entered(s) == CurrentEntered(s, 0, <<"button", 1>>)

\* Mutant of handle_current2_entered: the focus goes to the Next button.
handle_current2_entered_FocusNext(s) == CurrentEntered(s, 1, <<"next_btn">>)

handle_current2_entered(s) == CurrentEntered(s, 1, <<"button", 2>>)

handle_current3_entered(s) == CurrentEntered(s, 2, <<"next_btn">>)

(***************************************************************************)
(* The connections the create_*_gui methods make: which handler a click on *)
(* test button k, or Return in line edit k, runs.                          *)
(***************************************************************************)
HVGuis == {"create_beam_test_gui", "create_ext_test_gui", "create_L1_test_gui",
           "create_L2_test_gui", "create_L3_test_gui", "create_L4_test_gui"}

ClickedSlots(g) ==
    IF g \in HVGuis
    THEN PyList(<<"handle_test_pos_100V_btn", "handle_test_pos_500V_btn",
                  "handle_test_pos_1kV_btn", "handle_test_neg_100V_btn",
                  "handle_test_neg_500V_btn", "handle_test_neg_1kV_btn">>)
    ELSE IF g = "create_sol_test_gui"
    THEN PyList(<<"handle_test_sol_current1_btn", "handle_test_sol_current2_btn",
                  "handle_test_sol_current3_btn">>)
    ELSE PyList(<<>>)

ReturnPressedSlots(g) ==
    IF g \in HVGuis
    THEN PyList(<<"handle_pos_100V_entered", "handle_pos_500V_entered",
                  "handle_pos_1kV_entered", "handle_neg_100V_entered",
                  "handle_neg_500V_entered", "handle_neg_1kV_entered">>)
    ELSE IF g = "create_sol_test_gui"
    THEN PyList(<<"handle_current1_entered", "handle_current2_entered",
                  "handle_current3_entered">>)
    ELSE PyList(<<>>)

\* The enabled flags of the test buttons the window shows.
TestButtons ==
    IF gui \in HVGuis THEN hv_buttons
    ELSE IF gui = "create_sol_test_gui" THEN current_buttons
    ELSE PyList(<<>>)

(***************************************************************************)
(* Inputs.                                                                 *)
(***************************************************************************)
\* A capture's inputs: what the device reports as the readback, and what the
\* operator has typed when Return is pressed.
CaptureInputs == { <<"99.8", "503.2">>, <<"0.1", "abc">> }

\* The device call of a run that fails: 0 is none.
Reliable == {0}

\* Whether the HV and the solenoid output are enabled when the window is
\* constructed, and whether the device has a further status bit set (it has not).
InitialOutputs == BOOLEAN \X BOOLEAN \X {FALSE}

(***************************************************************************)
(* The program state as the record the handlers work on, and back.         *)
(***************************************************************************)
Self(f, rb, text) ==
    [occupied_channels |-> occupied_channels, test_stages |-> test_stages,
     current_stage_index |-> current_stage_index,
     back_button_pressed |-> back_button_pressed, channel |-> channel,
     readbacks |-> readbacks, measurements |-> measurements, gui |-> gui,
     line_edits |-> line_edits, hv_buttons |-> hv_buttons,
     current_buttons |-> current_buttons, back_btn |-> back_btn, focus |-> focus,
     window |-> window, hvps |-> hvps, signals |-> signals, report |-> report,
     trace |-> <<>>, aborted |-> FALSE, ret |-> "",
     failAt |-> f, rb |-> rb, text |-> text]

\* Run r ended in the exception of a device call.
DeviceFailed(r) == r.aborted /\ r.trace[Len(r.trace)][2] \in DeviceCalls

Becomes(r) ==
    /\ occupied_channels' = r.occupied_channels
    /\ test_stages' = r.test_stages
    /\ current_stage_index' = r.current_stage_index
    /\ back_button_pressed' = r.back_button_pressed
    /\ channel' = r.channel
    /\ readbacks' = r.readbacks
    /\ measurements' = r.measurements
    /\ gui' = r.gui
    /\ line_edits' = r.line_edits
    /\ hv_buttons' = r.hv_buttons
    /\ current_buttons' = r.current_buttons
    /\ back_btn' = r.back_btn
    /\ focus' = r.focus
    /\ window' = r.window
    /\ hvps' = r.hvps
    /\ signals' = r.signals
    /\ report' = r.report
    /\ trace' = r.trace
    /\ aborted' = r.aborted
    /\ DeviceFailed(r) => failures < MaxFailures
    /\ failures' = failures + (IF DeviceFailed(r) THEN 1 ELSE 0)

\* The operator can act on the widgets of a window that is open.
Shown == window = "open" /\ gui \notin {"none", "blank"}

(***************************************************************************)
(* __init__: the object as constructed for the list occ, the device with   *)
(* its outputs as out.  test_plan runs in the constructor.                 *)
(***************************************************************************)
Constructed(occ, out) ==
    test_plan(
        [occupied_channels |-> occ, test_stages |-> PyList(<<>>),
         current_stage_index |-> 0, back_button_pressed |-> FALSE, channel |-> "",
         readbacks |-> InitialReadbacks, measurements |-> InitialMeasurements,
         gui |-> "none", line_edits |-> PyList(<<>>), hv_buttons |-> PyList(<<>>),
         current_buttons |-> PyList(<<>>), back_btn |-> FALSE, focus |-> <<"none">>,
         window |-> "open",
         hvps |-> [hv |-> out[1], sol |-> out[2], other |-> out[3],
                   voltage |-> [c \in Channels |-> "0"], current |-> "0"],
         signals |-> <<>>, report |-> <<>>,
         trace |-> <<>>, aborted |-> FALSE, ret |-> "",
         failAt |-> 0, rb |-> "", text |-> ""])

InitWith(lists, outputs) ==
    \E occ \in lists, out \in outputs :
        LET r == Constructed(occ, out)
        IN  /\ occupied_channels = r.occupied_channels
            /\ test_stages = r.test_stages
            /\ current_stage_index = r.current_stage_index
            /\ back_button_pressed = r.back_button_pressed
            /\ channel = r.channel
            /\ readbacks = r.readbacks
            /\ measurements = r.measurements
            /\ gui = r.gui
            /\ line_edits = r.line_edits
            /\ hv_buttons = r.hv_buttons
            /\ current_buttons = r.current_buttons
            /\ back_btn = r.back_btn
            /\ focus = r.focus
            /\ window = r.window
            /\ hvps = r.hvps
            /\ signals = r.signals
            /\ report = r.report
            /\ trace = r.trace
            /\ aborted = r.aborted
            /\ handler = "__init__"
            /\ event = <<"construct", "window", 0, "">>
            /\ captured = {}
            /\ failures = 0

InitOver(lists) == InitWith(lists, InitialOutputs)

(***************************************************************************)
(* The operator's events.  A click reaches the handler connected to an     *)
(* enabled button; Return reaches the handler connected to an enabled line *)
(* edit, with the text typed so far.                                       *)
(***************************************************************************)
Clicked(name, k, run) ==
    /\ Shown
    /\ k \in DOMAIN TestButtons
    /\ TestButtons[k]
    /\ ClickedSlots(gui)[k] = name
    /\ \E r \in {run} : Becomes(r)
    /\ handler' = name
    /\ event' = <<"clicked", "button", k, "">>
    /\ captured' = captured

\* The slots a session may capture: all of the channel when the solenoid is the
\* only occupied channel.
CaptureBudget ==
    IF occupied_channels = PyList(<<"SL">>) THEN MaxCapturesAlone ELSE MaxCaptures

ReturnPressed(name, k, text, run) ==
    /\ Shown
    /\ k \in DOMAIN line_edits
    /\ line_edits[k]
    /\ ReturnPressedSlots(gui)[k] = name
    /\ Cardinality(captured \cup {<<channel, k>>}) <= CaptureBudget
    /\ \E r \in {run} : Becomes(r)
    /\ handler' = name
    /\ event' = <<"returnPressed", "line_edit", k, text>>
    /\ captured' = captured \cup {<<channel, k>>}

Ordinals == 0..5

test_pos_100V_btn_clicked(F) ==
    \E k \in Ordinals, f \in F :
        Clicked("handle_test_pos_100V_btn", k, handle_test_pos_100V_btn(Self(f, "", "")))

test_pos_500V_btn_clicked(F) ==
    \E k \in Ordinals, f \in F :
        Clicked("handle_test_pos_500V_btn", k, handle_test_pos_500V_btn(Self(f, "", "")))

test_pos_1kV_btn_clicked(F) ==
    \E k \in Ordinals, f \in F :
        Clicked("handle_test_pos_1kV_btn", k, handle_test_pos_1kV_btn(Self(f, "", "")))

test_neg_100V_btn_clicked(F) ==
    \E k \in Ordinals, f \in F :
        Clicked("handle_test_neg_100V_btn", k, handle_test_neg_100V_btn(Self(f, "", "")))

test_neg_500V_btn_clicked(F) ==
    \E k \in Ordinals, f \in F :
        Clicked("handle_test_neg_500V_btn", k, handle_test_neg_500V_btn(Self(f, "", "")))

test_neg_1kV_btn_clicked(F) ==
    \E k \in Ordinals, f \in F :
        Clicked("handle_test_neg_1kV_btn", k, handle_test_neg_1kV_btn(Self(f, "", "")))

current1_btn_clicked(F) ==
    \E k \in Ordinals, f \in F :
        Clicked("handle_test_sol_current1_btn", k,
                handle_test_sol_current1_btn(Self(f, "", "")))

current2_btn_clicked(F) ==
    \E k \in Ordinals, f \in F :
        Clicked("handle_test_sol_current2_btn", k,
                handle_test_sol_current2_btn(Self(f, "", "")))

current3_btn_clicked(F) ==
    \E k \in Ordinals, f \in F :
        Clicked("handle_test_sol_current3_btn", k,
                handle_test_sol_current3_btn(Self(f, "", "")))

pos_100V_returnPressed(F) ==
    \E k \in Ordinals, f \in F, in \in CaptureInputs :
        ReturnPressed("handle_pos_100V_entered", k, in[2],
                      handle_pos_100V_entered(Self(f, in[1], in[2]), k))

pos_500V_returnPressed(F) ==
    \E k \in Ordinals, f \in F, in \in CaptureInputs :
        ReturnPressed("handle_pos_500V_entered", k, in[2],
                      handle_pos_500V_entered(Self(f, in[1], in[2]), k))

pos_1kV_returnPressed(F) ==
    \E k \in Ordinals, f \in F, in \in CaptureInputs :
        ReturnPressed("handle_pos_1kV_entered", k, in[2],
                      handle_pos_1kV_entered(Self(f, in[1], in[2]), k))

neg_100V_returnPressed(F) ==
    \E k \in Ordinals, f \in F, in \in CaptureInputs :
        ReturnPressed("handle_neg_100V_entered", k, in[2],
                      handle_neg_100V_entered(Self(f, in[1], in[2]), k))

neg_500V_returnPressed(F) ==
    \E k \in Ordinals, f \in F, in \in CaptureInputs :
        ReturnPressed("handle_neg_500V_entered", k, in[2],
                      handle_neg_500V_entered(Self(f, in[1], in[2]), k))

neg_1kV_returnPressed(F) ==
    \E k \in Ordinals, f \in F, in \in CaptureInputs :
        ReturnPressed("handle_neg_1kV_entered", k, in[2],
                      handle_neg_1kV_entered(Self(f, in[1], in[2]), k))

current1_returnPressed(F) ==
    \E k \in Ordinals, f \in F, in \in CaptureInputs :
        ReturnPressed("handle_current1_entered", k, in[2],
                      handle_current1_entered(Self(f, in[1], in[2])))

current2_returnPressed(F) ==
    \E k \in Ordinals, f \in F, in \in CaptureInputs :
        ReturnPressed("handle_current2_entered", k, in[2],
                      handle_current2_entered(Self(f, in[1], in[2])))

current3_returnPressed(F) ==
    \E k \in Ordinals, f \in F, in \in CaptureInputs :
        ReturnPressed("handle_current3_entered", k, in[2],
                      handle_current3_entered(Self(f, in[1], in[2])))

\* The Disable HV button exists in the six HV windows, Disable Solenoid in the
\* solenoid window; both are always enabled.
disable_hv_btn_clicked(F) ==
    \E f \in F :
        /\ Shown
        /\ gui \in HVGuis
        /\ \E r \in {handle_disable_hv_btn(Self(f, "", ""))} : Becomes(r)
        /\ handler' = "handle_disable_hv_btn"
        /\ event' = <<"clicked", "disable_hv_btn", 0, "">>
        /\ captured' = captured

disable_sol_btn_clicked(F) ==
    \E f \in F :
        /\ Shown
        /\ gui = "create_sol_test_gui"
        /\ \E r \in {handle_disable_sol_btn(Self(f, "", ""))} : Becomes(r)
        /\ handler' = "handle_disable_sol_btn"
        /\ event' = <<"clicked", "disable_sol_btn", 0, "">>
        /\ captured' = captured

back_btn_clicked(F) ==
    \E f \in F :
        /\ Shown
        /\ back_btn
        /\ \E r \in {handle_back_btn(Self(f, "", ""))} : Becomes(r)
        /\ handler' = "handle_back_btn"
        /\ event' = <<"clicked", "back_btn", 0, "">>
        /\ captured' = captured

next_btn_clicked(F) ==
    \E f \in F :
        /\ Shown
        /\ \E r \in {handle_next_btn(Self(f, "", ""))} : Becomes(r)
        /\ handler' = "handle_next_btn"
        /\ event' = <<"clicked", "next_btn", 0, "">>
        /\ captured' = captured

\* The operator closes the window: Qt delivers a QCloseEvent to closeEvent.
window_close(F) ==
    \E f \in F :
        /\ window = "open"
        /\ \E r \in {closeEvent(Self(f, "", ""))} : Becomes(r)
        /\ handler' = "closeEvent"
        /\ event' = <<"close", "window", 0, "">>
        /\ captured' = captured

(***************************************************************************)
(* Specifications.                                                         *)
(***************************************************************************)
\* The occupied-channel lists of the sessions explored in full.
OccupiedLists ==
    { PyList(<<>>), PyList(<<"BM", "SL">>), PyList(<<"EX", "L1">>),
      PyList(<<"SL">>) }

Init == InitOver(OccupiedLists)

Next ==
    \/ test_pos_100V_btn_clicked(Reliable)
    \/ test_pos_500V_btn_clicked(Reliable)
    \/ test_pos_1kV_btn_clicked(Reliable)
    \/ test_neg_100V_btn_clicked(Reliable)
    \/ test_neg_500V_btn_clicked(Reliable)
    \/ test_neg_1kV_btn_clicked(Reliable)
    \/ current1_btn_clicked(Reliable)
    \/ current2_btn_clicked(Reliable)
    \/ current3_btn_clicked(Reliable)
    \/ pos_100V_returnPressed(Reliable)
    \/ pos_500V_returnPressed(Reliable)
    \/ pos_1kV_returnPressed(Reliable)
    \/ neg_100V_returnPressed(Reliable)
    \/ neg_500V_returnPressed(Reliable)
    \/ neg_1kV_returnPressed(Reliable)
    \/ current1_returnPressed(Reliable)
    \/ current2_returnPressed(Reliable)
    \/ current3_returnPressed(Reliable)
    \/ disable_hv_btn_clicked(Reliable)
    \/ disable_sol_btn_clicked(Reliable)
    \/ back_btn_clicked(Reliable)
    \/ next_btn_clicked(Reliable)
    \/ window_close(Reliable)

Spec == Init /\ [][Next]_vars

(***************************************************************************)
(* Sessions of an operator who only presses Next, for every set of         *)
(* occupied channels, listed in canonical order, reversed and rotated.     *)
(***************************************************************************)
CanonicalOrder == <<"BM", "EX", "L1", "L2", "L3", "L4", "SL">>

InOrder(S) == SelectSeq(CanonicalOrder, LAMBDA c : c \in S)

Reversed(seq) == [i \in 1..Len(seq) |-> seq[Len(seq) + 1 - i]]

Rotated(seq) == IF seq = <<>> THEN seq ELSE Append(Tail(seq), Head(seq))

AllOccupiedLists ==
    { PyList(InOrder(S)) : S \in SUBSET Channels }
        \cup { PyList(Reversed(InOrder(S))) : S \in SUBSET Channels }
        \cup { PyList(Rotated(InOrder(S))) : S \in SUBSET Channels }

InitAnyOccupancy == InitOver(AllOccupiedLists)

NextOnly == next_btn_clicked(Reliable)

\* The operator of these sessions keeps pressing Next while the button is there:
\* weak fairness of NextOnly, its enabling condition written out.  The action's
\* only guard is Shown (the button of a displayed stage is never disabled) and
\* handle_next_btn always changes current_stage_index.
NextOnlyFair == []<>(~Shown) \/ []<><<NextOnly>>_vars

SpecNextOnly == InitAnyOccupancy /\ [][NextOnly]_vars /\ NextOnlyFair

(***************************************************************************)
(* What the claims speak of.                                               *)
(***************************************************************************)
BackNextHandlers == {"handle_next_btn", "handle_back_btn"}

TestVoltageHandlers ==
    {"handle_test_pos_100V_btn", "handle_test_pos_500V_btn", "handle_test_pos_1kV_btn",
     "handle_test_neg_100V_btn", "handle_test_neg_500V_btn", "handle_test_neg_1kV_btn"}

TestCurrentHandlers ==
    {"handle_test_sol_current1_btn", "handle_test_sol_current2_btn",
     "handle_test_sol_current3_btn"}

VoltageEnteredHandlers ==
    {"handle_pos_100V_entered", "handle_pos_500V_entered", "handle_pos_1kV_entered",
     "handle_neg_100V_entered", "handle_neg_500V_entered", "handle_neg_1kV_entered"}

CurrentEnteredHandlers ==
    {"handle_current1_entered", "handle_current2_entered", "handle_current3_entered"}

EnteredHandlers == VoltageEnteredHandlers \cup CurrentEnteredHandlers

\* The documented meaning of the state tokens.
TokenSaysHV(token) == token \in {"STATE0001", "STATE0011"}

TokenSaysSol(token) == token \in {"STATE0010", "STATE0011"}

\* The places of the trace that hold call (or emission) e.
Places(e) == {i \in 1..Len(trace) : trace[i] = e}

\* The places of the trace that hold a call named n.
PlacesNamed(n) == {i \in 1..Len(trace) : trace[i][1] = n}

\* The line edits that are enabled: the test points that are armed.
Armed == {k \in DOMAIN line_edits : line_edits[k]}

\* C1: after handle_next_btn or handle_back_btn has run to its end, the HV output
\* and the solenoid output are both disabled, whatever the state it started in.
C1_OutputsOffAfterNextOrBack ==
    (handler \in BackNextHandlers /\ ~aborted) => (~hvps.hv /\ ~hvps.sol)

\* Next was pressed on an HV channel with a test point armed and nothing captured:
\* the stale self.hv_buttons still shows the other test buttons disabled.
C1_Witness ==
    /\ handler = "handle_next_btn"
    /\ ~aborted
    /\ gui = "create_sol_test_gui"
    /\ \E k \in DOMAIN hv_buttons : ~hv_buttons[k]
    /\ Places(<<"disable_high_voltage">>) # {}
    /\ captured = {}

\* C2: at most one test point of the displayed channel is armed, on HV channels
\* and on SL.
C2_AtMostOneArmed == Shown => Cardinality(Armed) <= 1

\* C3: when a measurement-entered handler has run, the target of the displayed
\* channel is "0" and the output of the channel's type is disabled.
C3_ZeroAndOffAfterCapture ==
    (handler \in EnteredHandlers /\ ~aborted) =>
        IF channel \in HVChannels
        THEN hvps.voltage[channel] = "0" /\ ~hvps.hv
        ELSE hvps.current = "0" /\ ~hvps.sol

C3_Witness ==
    /\ handler = "handle_pos_1kV_entered"
    /\ ~aborted
    /\ channel = "EX"
    /\ event[3] = 2

\* C4: closing the window while a channel is displayed and HV is enabled issues
\* exactly one disable_high_voltage and exactly one set_voltage, of the displayed
\* channel to "0", before window_closed is emitted; likewise for the solenoid pair
\* when the solenoid is enabled; both outputs end disabled and the window closes.
C4_CloseQuiescesOnce ==
    (handler = "closeEvent" /\ ~aborted) =>
        /\ trace[Len(trace)] = <<"emit", "window_closed">>
        /\ Cardinality(Places(<<"emit", "window_closed">>)) = 1
        /\ TokenSaysHV(trace[1][2]) =>
              /\ Cardinality(PlacesNamed("disable_high_voltage")) = 1
              /\ Cardinality(PlacesNamed("set_voltage")) = 1
              /\ Places(<<"set_voltage", channel, "0">>) # {}
        /\ (\E i \in PlacesNamed("get_state") : i > 1 /\ TokenSaysSol(trace[i][2])) =>
              /\ Cardinality(PlacesNamed("disable_solenoid_current")) = 1
              /\ Cardinality(PlacesNamed("set_solenoid_current")) = 1
              /\ Places(<<"set_solenoid_current", "0">>) # {}
        /\ ~hvps.hv
        /\ ~hvps.sol
        /\ window = "closed"

\* The window was closed with a test point armed and the high voltage on.
C4_Witness ==
    /\ handler = "closeEvent"
    /\ ~aborted
    /\ Armed # {}
    /\ channel \in HVChannels
    /\ TokenSaysHV(trace[1][2])
    /\ report = <<>>

\* C5: Back cannot be pressed on the first channel of the occupied list, so
\* current_stage_index never goes below 0.
C5_IndexNeverBelowZero == current_stage_index >= 0

\* C8: a measurement-entered handler stores the typed text in the measurement slot
\* and the value the device returned to its readback query in the readback slot,
\* both at the ordinal of the line edit that was submitted.
C8_CaptureRoundTrip ==
    (handler \in EnteredHandlers /\ ~aborted) =>
        /\ trace[1][1] = (IF channel \in HVChannels THEN "get_voltage" ELSE "get_current")
        /\ trace[1][2] = channel
        /\ measurements[channel][event[3]] = event[4]
        /\ readbacks[channel][event[3]] = trace[1][3]

C8_Witness ==
    /\ handler = "handle_neg_100V_entered"
    /\ ~aborted
    /\ event = <<"returnPressed", "line_edit", 3, "503.2">>
    /\ measurements[channel][3] = "503.2"

\* C9: a result slot for which no measurement was ever entered holds "N/I" in
\* both mappings.
C9_UncapturedIsSentinel ==
    \A c \in Channels : \A i \in DOMAIN readbacks[c] :
        <<c, i>> \notin captured =>
            /\ readbacks[c][i] = NotInstalled
            /\ measurements[c][i] = NotInstalled

\* One point of BM was captured, another was armed and abandoned by Next.
C9_Witness ==
    /\ handler = "handle_next_btn"
    /\ gui = "create_sol_test_gui"
    /\ captured = {<<"BM", 0>>}
    /\ ~hv_buttons[0] /\ hv_buttons[1]
    /\ measurements["BM"][1] = NotInstalled
    /\ measurements["BM"][0] # NotInstalled

\* C10: a test-button handler issues the set-target command, then asks the state,
\* then the enable command if and only if the state says the output is off; a
\* measurement-entered handler issues the readback query, then the target "0",
\* then the disable command.
C10_CallOrder ==
    /\ (handler \in TestVoltageHandlers /\ ~aborted) =>
          /\ Len(trace) >= 2
          /\ trace[1][1] = "set_voltage" /\ trace[1][2] = channel
          /\ trace[2][1] = "get_state"
          /\ IF TokenSaysHV(trace[2][2])
             THEN Len(trace) = 2
             ELSE Len(trace) = 3 /\ trace[3] = <<"enable_high_voltage">>
    /\ (handler \in TestCurrentHandlers /\ ~aborted) =>
          /\ Len(trace) >= 2
          /\ trace[1][1] = "set_solenoid_current"
          /\ trace[2][1] = "get_state"
          /\ IF TokenSaysSol(trace[2][2])
             THEN Len(trace) = 2
             ELSE Len(trace) = 3 /\ trace[3] = <<"enable_solenoid_current">>
    /\ (handler \in VoltageEnteredHandlers /\ ~aborted) =>
          /\ Len(trace) = 3
          /\ trace[1][1] = "get_voltage"
          /\ trace[2] = <<"set_voltage", channel, "0">>
          /\ trace[3] = <<"disable_high_voltage">>
    /\ (handler \in CurrentEnteredHandlers /\ ~aborted) =>
          /\ Len(trace) = 3
          /\ trace[1][1] = "get_current"
          /\ trace[2] = <<"set_solenoid_current", "0">>
          /\ trace[3] = <<"disable_solenoid_current">>

\* A test button was pressed while the device reported the output enabled.
C10_Witness ==
    /\ handler \in TestVoltageHandlers
    /\ ~aborted
    /\ Len(trace) = 2
    /\ TokenSaysHV(trace[2][2])

\* The channels named by occupied_channels.
Occupied == {occupied_channels[i] : i \in DOMAIN occupied_channels}

\* The channel each create_*_gui method displays.
StageChannel ==
    [method \in HVGuis \cup {"create_sol_test_gui"} |->
        CallStage(Constructed(PyList(<<>>), <<FALSE, FALSE, FALSE>>), method).channel]

ChannelOf(method) == StageChannel[method]

Rank(c) == CHOOSE i \in 1..Len(CanonicalOrder) : CanonicalOrder[i] = c

\* C6: whatever the order of occupied_channels, test_plan's stage list is the
\* canonical order BM, EX, L1, L2, L3, L4, SL filtered to the occupied set: one
\* stage per occupied channel, none twice, in increasing canonical rank.
C6_StagesCanonical ==
    /\ DOMAIN test_stages = 0..(Cardinality(Occupied) - 1)
    /\ {ChannelOf(test_stages[i]) : i \in DOMAIN test_stages} = Occupied
    /\ \A i, j \in DOMAIN test_stages :
           i < j => Rank(ChannelOf(test_stages[i])) < Rank(ChannelOf(test_stages[j]))

\* The list names SL, L1, BM in that order and the stages are beam, L1, solenoid.
C6_Witness ==
    /\ occupied_channels = PyList(<<"SL", "L1", "BM">>)
    /\ test_stages = PyList(<<"create_beam_test_gui", "create_L1_test_gui",
                              "create_sol_test_gui">>)

\* The state part of C7: while the window is open the displayed channel is the
\* one at current_stage_index of the canonical plan and nothing was emitted; once
\* it is closed the index is the plan's length and test_complete was emitted once,
\* with "N/I" in every slot of every unoccupied channel of both mappings.
NextOnlyState ==
    LET plan == PyList(InOrder(Occupied))
    IN  /\ window = "open" =>
              /\ current_stage_index \in DOMAIN plan
              /\ channel = plan[current_stage_index]
              /\ gui \notin {"none", "blank"}
              /\ ChannelOf(gui) = channel
              /\ report = <<>>
              /\ signals = <<>>
        /\ window = "closed" =>
              /\ current_stage_index = PyLen(plan)
              /\ Len(report) = 1
              /\ Len(SelectSeq(signals, LAMBDA x : x = "test_complete")) = 1
              /\ signals[1] = "test_complete"
              /\ \A c \in Channels \ Occupied :
                     /\ \A i \in DOMAIN report[1].readbacks[c] :
                            report[1].readbacks[c][i] = NotInstalled
                     /\ \A i \in DOMAIN report[1].measurements[c] :
                            report[1].measurements[c][i] = NotInstalled

\* C7: for every occupancy set, the empty one included, a session of Next presses
\* displays the occupied channels one after the other in canonical order, each
\* once (every step moves the index up by one), and ends with the emission of the
\* two mappings, the slots of the unoccupied channels all "N/I".
C7_NextOnlySession ==
    /\ []NextOnlyState
    /\ [][current_stage_index' = current_stage_index + 1]_vars
    /\ <>(window = "closed" /\ Len(report) = 1)

\* The session of occupied = {BM, SL} has ended: both channels were displayed.
C7_Witness ==
    /\ Occupied = {"BM", "SL"}
    /\ window = "closed"
    /\ current_stage_index = 2
    /\ handler = "handle_next_btn"
    /\ Len(report) = 1

(***************************************************************************)
(* The safety contract of Next, Back and close.                            *)
(***************************************************************************)
SafetyHandlers == {"handle_next_btn", "handle_back_btn", "closeEvent"}

\* The calls of run t open as the safety contract for channel c: get_state; if it
\* says HV on, disable_high_voltage and then set_voltage(c, "0"); get_state again,
\* whatever the first said; if it says solenoid on, disable_solenoid_current and
\* then set_solenoid_current("0"); and, when the handler moves, only then the
\* assignment to current_stage_index.
ContractOrder(t, c, moves) ==
    LET hvOn == TokenSaysHV(t[1][2])
        k == IF hvOn THEN 4 ELSE 2
        solOn == TokenSaysSol(t[k][2])
        end == IF solOn THEN k + 2 ELSE k
    IN  /\ Len(t) >= 2
        /\ t[1][1] = "get_state"
        /\ hvOn => /\ Len(t) >= 4
                   /\ t[2] = <<"disable_high_voltage">>
                   /\ t[3] = <<"set_voltage", c, "0">>
        /\ t[k][1] = "get_state"
        /\ solOn => /\ Len(t) >= k + 2
                    /\ t[k + 1] = <<"disable_solenoid_current">>
                    /\ t[k + 2] = <<"set_solenoid_current", "0">>
        /\ moves => /\ Len(t) > end
                    /\ t[end + 1][1] = "current_stage_index"

\* C11: every run of handle_next_btn, handle_back_btn and closeEvent opens with
\* the safety contract in order, for the channel displayed before the step: the
\* HV disabled before its target is zeroed, the solenoid checked whatever the HV
\* check said, and everything issued before current_stage_index is assigned.
C11_SafetyContractOrder ==
    [][handler' \in SafetyHandlers =>
           ContractOrder(trace', channel, handler' # "closeEvent")]_vars

\* Back was pressed with both outputs enabled.
C11_Witness ==
    /\ handler = "handle_back_btn"
    /\ PlacesNamed("disable_high_voltage") # {}
    /\ PlacesNamed("disable_solenoid_current") # {}
    /\ PlacesNamed("current_stage_index") # {}

(***************************************************************************)
(* Completion.                                                             *)
(***************************************************************************)
\* What holds of an emission in every state: at most one; one exactly when the
\* index is the length of the stage list; it carries the mappings as they are;
\* the window is closed; it was made by handle_next_btn, or by __init__ when the
\* stage list is empty.
EmittedAtTheEnd ==
    /\ Len(report) <= 1
    /\ Len(report) = Len(SelectSeq(signals, LAMBDA x : x = "test_complete"))
    /\ (report # <<>>) <=> (current_stage_index = PyLen(test_stages))
    /\ report # <<>> =>
          /\ report[1] = [readbacks |-> readbacks, measurements |-> measurements]
          /\ window = "closed"
          /\ handler \in {"handle_next_btn", "__init__"}
          /\ handler = "__init__" => PyLen(test_stages) = 0

\* C12 as stated: test_complete is emitted exactly when Next moves
\* current_stage_index to the length of the stage list.
C12_EmittedExactlyByNext ==
    (report # <<>>) <=>
        (handler = "handle_next_btn" /\ current_stage_index = PyLen(test_stages))

\* C12, amended: test_complete is emitted, with the accumulated mappings, exactly
\* when the index equals the length of the stage list, which Next brings about
\* or, with no occupied channel, the constructor; never while the index is below
\* the length; at most once; the window is then closed and no handler runs
\* again: no step starts in a state where the emission has happened.
C12_EmittedOnceAtEnd ==
    /\ []EmittedAtTheEnd
    /\ [][report = <<>>]_vars

\* Next ended a session in which a measurement had been captured.
C12_Witness ==
    /\ handler = "handle_next_btn"
    /\ report # <<>>
    /\ captured # {}
    /\ \E c \in Channels : \E i \in DOMAIN report[1].measurements[c] :
           report[1].measurements[c][i] # NotInstalled

(***************************************************************************)
(* The ladder of targets.                                                  *)
(***************************************************************************)
\* The targets by ordinal, as the specification lists them.
HVLadder == PyList(<<"100", "500", "1000", "-100", "-500", "-1000">>)

SLLadder == PyList(<<"0.3", "1.2", "2.5">>)

\* C13: a voltage test handler sends one target, set_voltage of the displayed HV
\* channel to the ladder value of the button's ordinal; a current test handler
\* sends one target, set_solenoid_current of the ladder value of its ordinal,
\* which is one of the three positive values.
C13_LadderTargets ==
    /\ handler \in TestVoltageHandlers =>
          /\ channel \in HVChannels
          /\ PlacesNamed("set_voltage") = {1}
          /\ PlacesNamed("set_solenoid_current") = {}
          /\ trace[1] = <<"set_voltage", channel, HVLadder[event[3]]>>
    /\ handler \in TestCurrentHandlers =>
          /\ channel = "SL"
          /\ PlacesNamed("set_solenoid_current") = {1}
          /\ PlacesNamed("set_voltage") = {}
          /\ trace[1] = <<"set_solenoid_current", SLLadder[event[3]]>>
          /\ trace[1][2] \in {"0.3", "1.2", "2.5"}

\* The -100 V point of L1 was armed.
C13_Witness ==
    /\ handler = "handle_test_neg_100V_btn"
    /\ event[3] = 3
    /\ trace[1] = <<"set_voltage", "L1", "-100">>

(***************************************************************************)
(* The shape of the result mappings.                                       *)
(***************************************************************************)
\* Mapping mp has the seven channels as keys, six slots for each HV channel and
\* three for SL.
SevenBySlots(mp) ==
    /\ DOMAIN mp = {"BM", "EX", "L1", "L2", "L3", "L4", "SL"}
    /\ \A c \in DOMAIN mp : DOMAIN mp[c] = (IF c = "SL" THEN 0..2 ELSE 0..5)

\* C14: readbacks and measurements, and the copies emitted with test_complete,
\* have seven keys, six slots per HV channel and three for SL, in every state.
C14_MappingShape ==
    /\ SevenBySlots(readbacks)
    /\ SevenBySlots(measurements)
    /\ \A i \in DOMAIN report :
           SevenBySlots(report[i].readbacks) /\ SevenBySlots(report[i].measurements)

\* Back was pressed after a measurement had been captured.
C14_Witness ==
    /\ handler = "handle_back_btn"
    /\ captured # {}
    /\ \E c \in Channels : \E i \in DOMAIN measurements[c] :
           measurements[c][i] # NotInstalled

(***************************************************************************)
(* Sessions in which device calls may fail: the call at position failAt of *)
(* a handler's run raises, and the exception leaves the slot; Qt goes on   *)
(* with the window as the handler left it.  The operator of these sessions *)
(* arms points, presses the disable buttons, Next and Back, and closes the *)
(* window; no measurement is entered.                                      *)
(***************************************************************************)
MaxFailAt == 6

\* Position 0 is no failure.
Failing == 0..MaxFailAt

FailingLists == { PyList(<<"BM", "SL">>) }

InitFailing == InitOver(FailingLists)

NextFailing ==
    \/ test_pos_100V_btn_clicked(Failing)
    \/ test_pos_500V_btn_clicked(Failing)
    \/ test_pos_1kV_btn_clicked(Failing)
    \/ test_neg_100V_btn_clicked(Failing)
    \/ test_neg_500V_btn_clicked(Failing)
    \/ test_neg_1kV_btn_clicked(Failing)
    \/ current1_btn_clicked(Failing)
    \/ current2_btn_clicked(Failing)
    \/ current3_btn_clicked(Failing)
    \/ disable_hv_btn_clicked(Failing)
    \/ disable_sol_btn_clicked(Failing)
    \/ back_btn_clicked(Failing)
    \/ next_btn_clicked(Failing)
    \/ window_close(Failing)

SpecFailing == InitFailing /\ [][NextFailing]_vars

ArmHandlers == TestVoltageHandlers \cup TestCurrentHandlers

\* C15: when a device call of a test-button handler fails, the line edits, the
\* test buttons and the result slots are as they were before the click.
C15_FailedArmChangesNothing ==
    [][(handler' \in ArmHandlers /\ aborted') =>
           /\ line_edits' = line_edits
           /\ hv_buttons' = hv_buttons
           /\ current_buttons' = current_buttons
           /\ readbacks' = readbacks
           /\ measurements' = measurements]_vars

\* C16: when handle_next_btn, handle_back_btn or closeEvent found the HV enabled
\* and a call after the disable_high_voltage failed, the HV is disabled.
C16_FailureAfterDisableLeavesHVOff ==
    (/\ handler \in SafetyHandlers
     /\ aborted
     /\ TokenSaysHV(trace[1][2])
     /\ Len(trace) >= 3) => ~hvps.hv

\* Next found the HV enabled, disabled it, and set_voltage failed.
C16_Witness ==
    /\ handler = "handle_next_btn"
    /\ aborted
    /\ TokenSaysHV(trace[1][2])
    /\ trace[2] = <<"disable_high_voltage">>
    /\ trace[3] = <<"raise", "set_voltage">>

(***************************************************************************)
(* Validation of the typed measurement.                                    *)
(***************************************************************************)
\* The texts of CaptureInputs that are well-formed decimals.
WellFormedTexts == {"503.2"}

\* C17: a measurement-entered handler does not write a text that is not a
\* well-formed decimal into the measurement slot.
C17_InvalidTextRejected ==
    (handler \in EnteredHandlers /\ ~aborted /\ event[4] \notin WellFormedTexts) =>
        measurements[channel][event[3]] # event[4]

(***************************************************************************)
(* Armed points and the device.                                            *)
(***************************************************************************)
\* C18: while a line edit of the displayed channel is enabled, the device target
\* of the channel is the ladder value of its ordinal and the output of the
\* channel's type is enabled.
C18_ArmedMeansEnergised ==
    Shown =>
        \A k \in Armed :
            IF gui \in HVGuis
            THEN hvps.voltage[channel] = HVLadder[k] /\ hvps.hv
            ELSE hvps.current = SLLadder[k] /\ hvps.sol

(***************************************************************************)
(* Idle and armed.                                                         *)
(***************************************************************************)
EntryHandlers == {"__init__", "handle_next_btn", "handle_back_btn"}

\* One line edit per test button, every line edit disabled, every button enabled.
Idle ==
    /\ DOMAIN line_edits = DOMAIN TestButtons
    /\ \A k \in DOMAIN line_edits : ~line_edits[k]
    /\ \A k \in DOMAIN TestButtons : TestButtons[k]

\* C19: a channel entered by __init__, Next or Back is displayed idle; after a
\* measurement-entered handler the submitted line edit is disabled and every test
\* button of the channel is enabled; and a line edit becomes enabled only in the
\* run of the test-button handler of its own ordinal.
C19_EnabledOnlyWhileArmed ==
    /\ []((handler \in EntryHandlers /\ Shown) => Idle)
    /\ []((handler \in EnteredHandlers /\ ~aborted) =>
              /\ ~line_edits[event[3]]
              /\ \A k \in DOMAIN TestButtons : TestButtons[k])
    /\ [][Shown' =>
              (Armed' \ (IF handler' \in EntryHandlers THEN {} ELSE Armed))
                  \subseteq (IF handler' \in ArmHandlers THEN {event'[3]} ELSE {})]_vars

\* The -1 kV measurement of an HV channel was submitted: the field is disabled
\* and the six buttons are enabled again.
C19_Witness ==
    /\ handler = "handle_neg_1kV_entered"
    /\ ~aborted
    /\ event[3] = 5
    /\ Armed = {}
    /\ \A k \in DOMAIN hv_buttons : hv_buttons[k]

(***************************************************************************)
(* closeEvent.                                                             *)
(***************************************************************************)
\* C20: whenever closeEvent has run (the window is closed), it ran to its end
\* without an exception and emitted window_closed last.
C20_CloseNeverRaises ==
    window = "closed" =>
        /\ ~aborted
        /\ trace # <<>>
        /\ trace[Len(trace)] = <<"emit", "window_closed">>

(***************************************************************************)
(* Sessions in which the device calls of a capture may fail: the operator  *)
(* arms points of the one displayed channel and submits measurements, and  *)
(* the call at position failAt of a measurement-entered handler raises.    *)
(***************************************************************************)
FailingCaptureLists == { PyList(<<"L2">>), PyList(<<"SL">>) }

\* A measurement-entered handler makes three device calls.
MaxFailAtCapture == 3

FailingCapture == 0..MaxFailAtCapture

InitFailingCapture == InitOver(FailingCaptureLists)

NextFailingCapture ==
    \/ test_pos_100V_btn_clicked(Reliable)
    \/ test_pos_500V_btn_clicked(Reliable)
    \/ test_pos_1kV_btn_clicked(Reliable)
    \/ test_neg_100V_btn_clicked(Reliable)
    \/ test_neg_500V_btn_clicked(Reliable)
    \/ test_neg_1kV_btn_clicked(Reliable)
    \/ current1_btn_clicked(Reliable)
    \/ current2_btn_clicked(Reliable)
    \/ current3_btn_clicked(Reliable)
    \/ pos_100V_returnPressed(FailingCapture)
    \/ pos_500V_returnPressed(FailingCapture)
    \/ pos_1kV_returnPressed(FailingCapture)
    \/ neg_100V_returnPressed(FailingCapture)
    \/ neg_500V_returnPressed(FailingCapture)
    \/ neg_1kV_returnPressed(FailingCapture)
    \/ current1_returnPressed(FailingCapture)
    \/ current2_returnPressed(FailingCapture)
    \/ current3_returnPressed(FailingCapture)

SpecFailingCapture == InitFailingCapture /\ [][NextFailingCapture]_vars

\* The last handler ended in the exception of a device call.
FailedRun == aborted /\ trace # <<>> /\ trace[Len(trace)][2] \in DeviceCalls

\* The control whose signal started the last handler is enabled.
TriggerEnabled ==
    CASE event[2] = "button" ->
             event[3] \in DOMAIN TestButtons /\ TestButtons[event[3]]
      [] event[2] = "line_edit" ->
             event[3] \in DOMAIN line_edits /\ line_edits[event[3]]
      [] event[2] = "back_btn" -> back_btn
      [] OTHER -> TRUE

\* C21: after a device call has failed inside a handler, the control that started
\* the handler is still enabled, so that the operator can retry the same step.
C21_FailedStepRetryable == (Shown /\ FailedRun) => TriggerEnabled

(***************************************************************************)
(* What a handler leaves alone.                                            *)
(***************************************************************************)
\* Mapping mp2 has the keys and slots of mp and differs from it at most in slot i
\* of channel c.
SameExcept(mp, mp2, c, i) ==
    /\ DOMAIN mp2 = DOMAIN mp
    /\ \A d \in DOMAIN mp :
           /\ DOMAIN mp2[d] = DOMAIN mp[d]
           /\ \A j \in DOMAIN mp[d] : (d # c \/ j # i) => mp2[d][j] = mp[d][j]

\* C22: a measurement-entered handler for point i of the displayed channel c
\* writes readbacks[c][i] (the device's answer) and measurements[c][i] (the typed
\* text) and leaves every other slot of both mappings as it was; every other
\* handler (arm, output-disable, Next, Back, close) leaves both mappings as they
\* were, so captured values survive leaving and re-entering a channel.
C22_CaptureFrame ==
    [][IF handler' \in EnteredHandlers
       THEN /\ channel' = channel
            /\ SameExcept(readbacks, readbacks', channel, event'[3])
            /\ SameExcept(measurements, measurements', channel, event'[3])
            /\ readbacks'[channel][event'[3]] = trace'[1][3]
            /\ measurements'[channel][event'[3]] = event'[4]
       ELSE /\ readbacks' = readbacks
            /\ measurements' = measurements]_vars

\* BM was captured, left with Next and entered again with Back: the value is there.
C22_Witness ==
    /\ handler = "handle_back_btn"
    /\ channel = "BM"
    /\ gui = "create_beam_test_gui"
    /\ captured # {}
    /\ \E i \in DOMAIN measurements["BM"] :
           /\ measurements["BM"][i] # NotInstalled
           /\ readbacks["BM"][i] # NotInstalled

\* C23: current_stage_index changes only in handle_next_btn, by +1, and in
\* handle_back_btn, by -1; a test-button handler, a measurement-entered handler
\* (of the last ordinal, or with every other ordinal captured, as of any other),
\* an output-disable handler and closeEvent leave the index and the displayed
\* channel as they were.
C23_IndexMovesOnlyByNextAndBack ==
    [][/\ handler' = "handle_next_btn" =>
              current_stage_index' = current_stage_index + 1
       /\ handler' = "handle_back_btn" =>
              current_stage_index' = current_stage_index - 1
       /\ handler' \notin BackNextHandlers =>
              /\ current_stage_index' = current_stage_index
              /\ test_stages' = test_stages
              /\ channel' = channel
              /\ gui' = gui]_vars

\* The last of the three solenoid points was captured after the other two: the
\* stage is still the solenoid's and the window waits for the operator.
C23_Witness ==
    /\ handler = "handle_current3_entered"
    /\ Cardinality(captured) = 3
    /\ current_stage_index = 0
    /\ gui = "create_sol_test_gui"
    /\ Shown
    /\ report = <<>>

(***************************************************************************)
(* The state queries of the safety contract.                               *)
(***************************************************************************)
\* C24: a run of handle_next_btn, handle_back_btn or closeEvent asks the device
\* for its state exactly once and takes both decisions from that answer.
C24_OneStateQuery ==
    (handler \in SafetyHandlers /\ ~aborted) =>
        /\ Cardinality(PlacesNamed("get_state")) = 1
        /\ PlacesNamed("disable_high_voltage") # {} <=> TokenSaysHV(trace[1][2])
        /\ PlacesNamed("disable_solenoid_current") # {} <=> TokenSaysSol(trace[1][2])

(***************************************************************************)
(* The flag of a backward transition.                                      *)
(***************************************************************************)
\* C25: back_button_pressed is FALSE whenever a stage is displayed and the window
\* waits for the operator, whatever stage a Back has loaded.
C25_BackFlagTransient == Shown => ~back_button_pressed

(***************************************************************************)
(* The decode of the state token.                                          *)
(***************************************************************************)
\* C26: for the four state tokens get_hv_enable_state answers TRUE exactly for
\* 'STATE0001' and 'STATE0011' and get_sol_enable_state exactly for 'STATE0010'
\* and 'STATE0011', each whatever the other bit is; and the handlers that ask
\* act on that answer: the Disable HV handler disables the HV exactly when the
\* token it read has the HV bit, the Disable Solenoid handler the solenoid
\* exactly when its token has the solenoid bit.
C26_DecodeExact ==
    /\ \A hv \in BOOLEAN, sol \in BOOLEAN :
           /\ hv_token_enabled(StateToken(hv, sol)) = hv
           /\ sol_token_enabled(StateToken(hv, sol)) = sol
    /\ \A token \in {"STATE0000", "STATE0001", "STATE0010", "STATE0011"} :
           /\ hv_token_enabled(token) <=> token \in {"STATE0001", "STATE0011"}
           /\ sol_token_enabled(token) <=> token \in {"STATE0010", "STATE0011"}
    /\ (handler = "handle_disable_hv_btn" /\ ~aborted) =>
           /\ trace[1][2] \in {"STATE0000", "STATE0001", "STATE0010", "STATE0011"}
           /\ (PlacesNamed("disable_high_voltage") # {})
                  <=> (trace[1][2] \in {"STATE0001", "STATE0011"})
    /\ (handler = "handle_disable_sol_btn" /\ ~aborted) =>
           /\ trace[1][2] \in {"STATE0000", "STATE0001", "STATE0010", "STATE0011"}
           /\ (PlacesNamed("disable_solenoid_current") # {})
                  <=> (trace[1][2] \in {"STATE0010", "STATE0011"})

\* Disable HV was pressed while only the solenoid was enabled: the token has a
\* bit set, but not the HV bit, and no disable_high_voltage is sent.
C26_Witness ==
    /\ handler = "handle_disable_hv_btn"
    /\ ~aborted
    /\ trace[1] = <<"get_state", "STATE0010">>
    /\ PlacesNamed("disable_high_voltage") = {}

(***************************************************************************)
(* The focus after a capture.                                              *)
(***************************************************************************)
\* The last ordinal of the displayed channel: 5 on an HV channel, 2 on SL.
LastOrdinal == IF channel = "SL" THEN 2 ELSE 5

\* C27: after the measurement of ordinal i has been entered, the focus is on the
\* test button of ordinal i + 1 of the same channel, which is enabled, or on the
\* Next button when i is the last ordinal, whatever was captured before.
C27_FocusAfterCapture ==
    (handler \in EnteredHandlers /\ ~aborted) =>
        IF event[3] = LastOrdinal
        THEN focus = <<"next_btn">>
        ELSE /\ focus = <<"button", event[3] + 1>>
             /\ TestButtons[event[3] + 1]

\* The second solenoid point was captured after the third and before the first:
\* the focus goes to the button of the third, captured or not.
C27_Witness ==
    /\ handler = "handle_current2_entered"
    /\ ~aborted
    /\ channel = "SL"
    /\ measurements["SL"][2] # NotInstalled
    /\ measurements["SL"][0] = NotInstalled
    /\ focus = <<"button", 2>>

(***************************************************************************)
(* Sessions that start with both outputs of the device disabled.           *)
(***************************************************************************)
InitOutputsOff == Init /\ ~hvps.hv /\ ~hvps.sol

SpecOutputsOff == InitOutputsOff /\ [][Next]_vars

\* C28: in a session that starts with both outputs disabled, the HV output is
\* enabled only while an HV channel is displayed and the solenoid output only
\* while SL is displayed; enable_high_voltage is sent only by a voltage test
\* handler on an HV channel and enable_solenoid_current only by a current test
\* handler on SL.
C28_OutputFollowsChannelType ==
    /\ hvps.hv => (channel \in HVChannels /\ gui \in HVGuis)
    /\ hvps.sol => (channel = "SL" /\ gui = "create_sol_test_gui")
    /\ PlacesNamed("enable_high_voltage") # {} =>
           (handler \in TestVoltageHandlers /\ channel \in HVChannels)
    /\ PlacesNamed("enable_solenoid_current") # {} =>
           (handler \in TestCurrentHandlers /\ channel = "SL")

\* Next was pressed on BM with the HV enabled by an armed point: the solenoid
\* stage is displayed with the HV disabled.
C28_Witness ==
    /\ handler = "handle_next_btn"
    /\ ~aborted
    /\ channel = "SL"
    /\ trace[1] = <<"get_state", "STATE0001">>
    /\ trace[2] = <<"disable_high_voltage">>
    /\ ~hvps.hv

\* C29: in a session that starts with both outputs disabled and in which no
\* device call fails, whenever a stage is displayed and the window waits for the
\* operator, an enabled output implies that a line edit of the displayed channel
\* is enabled.
C29_OutputOnImpliesArmed ==
    (Shown /\ (hvps.hv \/ hvps.sol)) => Armed # {}

\* After a capture on SL two solenoid points are armed: the output is enabled and
\* two line edits are.
C29_Witness ==
    /\ handler \in TestCurrentHandlers
    /\ Shown
    /\ hvps.sol
    /\ captured # {}
    /\ Cardinality(Armed) = 2

(***************************************************************************)
(* The device at the end of a session.                                     *)
(***************************************************************************)
\* C30: when the session has ended (the window is closed, after test_complete or
\* by the operator) both outputs are disabled and every target is "0": the
\* target of each HV channel and the solenoid target.  The device starts with
\* every target "0", so a target that is not "0" is that of an armed channel.
C30_SessionEndsQuiescent ==
    (window = "closed" /\ ~aborted) =>
        /\ ~hvps.hv
        /\ ~hvps.sol
        /\ \A c \in HVChannels : hvps.voltage[c] = "0"
        /\ hvps.current = "0"

(***************************************************************************)
(* What the device was doing when a readback was taken.                    *)
(***************************************************************************)
\* C31: a measurement-entered handler of ordinal i stores a readback only when,
\* as it starts, the device target of the displayed channel is the ladder value
\* of ordinal i and the output of the channel's type is enabled.
C31_ReadbackTakenAtTarget ==
    [][(handler' \in EnteredHandlers /\ ~aborted') =>
           IF channel \in HVChannels
           THEN hvps.voltage[channel] = HVLadder[event'[3]] /\ hvps.hv
           ELSE hvps.current = SLLadder[event'[3]] /\ hvps.sol]_vars

(***************************************************************************)
(* The two mappings go together.                                           *)
(***************************************************************************)
\* C32: the readback and the measurement of a slot are written together: in
\* every state, also after a device call of a capture has failed, readbacks[c][i]
\* is the sentinel exactly when measurements[c][i] is.  (No readback and no
\* typed text of CaptureInputs is the sentinel.)
C32_PairWrittenTogether ==
    /\ \A in \in CaptureInputs : in[1] # NotInstalled /\ in[2] # NotInstalled
    /\ \A c \in Channels : \A i \in DOMAIN readbacks[c] :
           (readbacks[c][i] = NotInstalled) <=> (measurements[c][i] = NotInstalled)

\* The first solenoid point was captured; the readback query of the second
\* failed: the second slot holds the sentinel in both mappings.
C32_Witness ==
    /\ handler = "handle_current2_entered"
    /\ aborted
    /\ trace = << <<"raise", "get_current">> >>
    /\ measurements["SL"][0] # NotInstalled
    /\ readbacks["SL"][0] # NotInstalled
    /\ measurements["SL"][1] = NotInstalled
    /\ readbacks["SL"][1] = NotInstalled

(***************************************************************************)
(* A capture whose zero-target command fails.                              *)
(***************************************************************************)
\* The output of the displayed channel's type is enabled.
OutputOfChannelOn == IF channel \in HVChannels THEN hvps.hv ELSE hvps.sol

\* C33: when set_voltage(c, '0') or set_solenoid_current('0') has failed in a
\* measurement-entered handler, the output of the channel's type is disabled,
\* or the submitted line edit is still enabled so that the capture can be
\* made again.
C33_FailedZeroLeavesOutputOff ==
    (/\ handler \in EnteredHandlers
     /\ aborted
     /\ trace[Len(trace)] \in {<<"raise", "set_voltage">>,
                               <<"raise", "set_solenoid_current">>}) =>
        (~OutputOfChannelOn \/ line_edits[event[3]])

ChannelCalls == {"set_voltage", "get_voltage", "get_current"}

\* C35: while a stage is displayed, current_stage_index is an index of the
\* occupied list, 0 <= index < length, the displayed channel is the element of
\* the list at that index, and every call of a test, measurement-entered or
\* output-disable handler that names a channel names the displayed channel.
C35_CommandsNameIndexedChannel ==
    Shown =>
        /\ 0 <= current_stage_index
        /\ current_stage_index < PyLen(occupied_channels)
        /\ channel = occupied_channels[current_stage_index]
        /\ handler \notin SafetyHandlers =>
               \A i \in 1..Len(trace) :
                   trace[i][1] \in ChannelCalls => trace[i][2] = channel

(***************************************************************************)
(* The way to completion.                                                  *)
(***************************************************************************)
\* C36: in every state in which the session has not ended (the window is open)
\* a stage is displayed, so that its Next button can be pressed, and the index
\* is below the length of the stage list: pressing Next again and again ends
\* the session.
C36_NextAlwaysAvailable ==
    window = "open" => (Shown /\ current_stage_index < PyLen(test_stages))

(***************************************************************************)
(* Sessions with a device that answers get_state with a token that is none *)
(* of the four documented ones.  The operator arms points, presses the     *)
(* disable buttons, Next and Back, and closes the window.                  *)
(***************************************************************************)
DocumentedTokens == {"STATE0000", "STATE0001", "STATE0010", "STATE0011"}

UndocumentedTokens == { OtherToken(hv, sol) : hv \in BOOLEAN, sol \in BOOLEAN }

UndocumentedOutputs == BOOLEAN \X BOOLEAN \X {TRUE}

UndocumentedLists == { PyList(<<"BM", "SL">>) }

InitUndocumented == InitWith(UndocumentedLists, UndocumentedOutputs)

NextUndocumented ==
    \/ test_pos_100V_btn_clicked(Reliable)
    \/ test_pos_500V_btn_clicked(Reliable)
    \/ test_pos_1kV_btn_clicked(Reliable)
    \/ test_neg_100V_btn_clicked(Reliable)
    \/ test_neg_500V_btn_clicked(Reliable)
    \/ test_neg_1kV_btn_clicked(Reliable)
    \/ current1_btn_clicked(Reliable)
    \/ current2_btn_clicked(Reliable)
    \/ current3_btn_clicked(Reliable)
    \/ disable_hv_btn_clicked(Reliable)
    \/ disable_sol_btn_clicked(Reliable)
    \/ back_btn_clicked(Reliable)
    \/ next_btn_clicked(Reliable)
    \/ window_close(Reliable)

SpecUndocumented == InitUndocumented /\ [][NextUndocumented]_vars

\* C37: a token that is none of the four documented ones is decoded as enabled
\* by get_hv_enable_state and by get_sol_enable_state.  With such tokens a run
\* of handle_next_btn, handle_back_btn or closeEvent opens with get_state,
\* disable_high_voltage, set_voltage to "0", get_state,
\* disable_solenoid_current, set_solenoid_current("0"), whatever the outputs
\* are; and a test-button handler sets its target, asks for the state and sends
\* no enable command, so that the output is as it was.
C37_UndocumentedTokenDecodesEnabled ==
    /\ \A token \in UndocumentedTokens :
           /\ token \notin DocumentedTokens
           /\ hv_token_enabled(token)
           /\ sol_token_enabled(token)
    /\ (handler \in SafetyHandlers /\ ~aborted) =>
           /\ Len(trace) >= 6
           /\ trace[1][1] = "get_state" /\ trace[1][2] \in UndocumentedTokens
           /\ trace[2] = <<"disable_high_voltage">>
           /\ trace[3][1] = "set_voltage" /\ trace[3][3] = "0"
           /\ trace[4][1] = "get_state" /\ trace[4][2] \in UndocumentedTokens
           /\ trace[5] = <<"disable_solenoid_current">>
           /\ trace[6] = <<"set_solenoid_current", "0">>
    /\ (handler \in ArmHandlers /\ ~aborted) =>
           /\ Len(trace) = 2
           /\ trace[1][1] \in {"set_voltage", "set_solenoid_current"}
           /\ trace[2][1] = "get_state" /\ trace[2][2] \in UndocumentedTokens
           /\ PlacesNamed("enable_high_voltage") = {}
           /\ PlacesNamed("enable_solenoid_current") = {}

\* A voltage point was armed while the HV was disabled and the device answered
\* 'STATE0100': the field is enabled, the target set, the HV still disabled.
C37_Witness ==
    /\ handler \in TestVoltageHandlers
    /\ ~aborted
    /\ trace[2] = <<"get_state", "STATE0100">>
    /\ Armed # {}
    /\ hvps.voltage[channel] # "0"
    /\ ~hvps.hv
====
